---- MODULE Spec2Model ----
(***************************************************************************)
(* Model of systray-rs src/lib.rs: the Application that owns the platform  *)
(* window, the menu id counter, the callback registry and both ends of the *)
(* event channel, and the dispatch thread spawned by wait_for_message.     *)
(*                                                                         *)
(* The platform window (api::api::Window) is an external collaborator: it  *)
(* is modelled by the results it may return (Ok or one of the three        *)
(* SystrayError kinds), by the calls it receives, and by the events its    *)
(* own thread may send on the clone of the sender it was built with.       *)
(* Handlers are caller-supplied closures: while one runs it may send       *)
(* events on the sender clone it was given, and it returns or it does not. *)
(* A handler that panics is not modelled.                                  *)
(***************************************************************************)
EXTENDS Integers, Sequences, FiniteSets, TLC

---------------------------------------------------------------------------
(* Bounds of the model *)

\* successful add_menu_item / add_menu_separator calls explored
MaxAdds == 3

\* events ever sent into the channel
MaxSends == 3

\* explicit shutdown() / quit() calls made by the owner of the Application
MaxExplicit == 1

\* width in bits of menu_idx (u32 in the source, scaled down)
IdWidth == 1

---------------------------------------------------------------------------
(* Types of the source *)

IdModulus == 2 ^ IdWidth

MaxIdx == IdModulus - 1

Ids == 0 .. MaxIdx

\* enum SystrayError
SystrayError == {"OsError", "NotImplementedError", "UnknownError"}

\* enum SystrayEvent
MenuEvent(m) == <<"MenuEvent", m>>

Quit == <<"Quit">>

SystrayEvent == {MenuEvent(m) : m \in Ids} \cup {Quit}

\* no handler (a separator has none)
None == <<"None">>

\* no call made yet
NoCall == [op |-> "none"]

VARIABLES
    overflow_checks, \* build profile: what integer overflow does, "panic" or "wrap";
                     \* "unobserved" until the first overflow shows which build this is
    owner,           \* who owns the Application value: "caller", "thread", "none"
    menu_idx,        \* Application.menu_idx
    callback,        \* Application.callback: id -> handler
    queue,           \* the channel between Application.tx clones and Application.rx
    window_tx,       \* TRUE while the platform window holds its clone of the sender
    caller_tx,       \* TRUE while the caller holds the sender wait_for_message returned
    pc,              \* position of the dispatch thread
    running,         \* <<id>> while the handler of MenuEvent(id) executes, else <<>>
    window_calls,    \* the quit / shutdown calls the platform window has received
    last_call,       \* the caller's last call on the Application and its result
    returned,        \* history: the successful add_* calls, in order
    sent,            \* history: every event sent into the channel, in order
    received,        \* history: number of events the loop has received
    invoked,         \* history: the handler invocations, in order
    completed,       \* history: number of handler invocations that returned
    spawn_mark,      \* history: Len(window_calls) when the dispatch thread was spawned
    explicit,        \* history: the explicit shutdown() / quit() calls of the owner
    quit_by          \* history: who sent the first Quit: "platform", "caller",
                     \* "handler", or "nobody" so far

vars == <<overflow_checks, owner, menu_idx, callback, queue, window_tx, caller_tx,
          pc, running, window_calls, last_call, returned, sent, received,
          invoked, completed, spawn_mark, explicit, quit_by>>

app_vars == <<menu_idx, callback>>

thread_vars == <<pc, running, received, invoked, completed, spawn_mark>>

chan_vars == <<queue, sent>>

---------------------------------------------------------------------------
(* Helpers *)

\* what a call on the platform window may return
WindowResult == {"Ok"} \cup SystrayError

\* HashMap::insert
Insert(map, k, v) == [x \in (DOMAIN map) \cup {k} |-> IF x = k THEN v ELSE map[x]]

\* HashMap::new()
EmptyMap == [x \in {} |-> None]

\* make_callback(f): each call boxes a fresh closure, named by the ordinal of
\* the add_menu_item call that passed it
make_callback(n) == <<"Handler", n>>

\* number of add_menu_item calls among the successful adds so far
ItemCount(rs) == Cardinality({i \in 1 .. Len(rs) : rs[i].op = "add_menu_item"})

\* menu_idx += 1 on a u32 without overflow checks
WrappingInc(i) == (i + 1) % IdModulus

\* Window::shutdown as the window sees it
WindowShutdown(calls) == Append(calls, "shutdown")

\* Window::quit as the window sees it
WindowQuit(calls) == Append(calls, "quit")

\* the destructor forgets the window
DropApplication_Forgets(calls) == calls

\* Drop for Application: self.shutdown().ok()
DropApplication(calls) == WindowShutdown(calls)

\* number of live Sender clones: the Application's own tx, the window's, the
\* caller's and the one handed to a running handler
LiveSenders ==
    (IF owner # "none" THEN 1 ELSE 0) + (IF window_tx THEN 1 ELSE 0)
    + (IF caller_tx THEN 1 ELSE 0) + (IF pc = "handler" THEN 1 ELSE 0)

---------------------------------------------------------------------------
(* Initial state: Application::new() returned Ok *)

Init ==
    /\ overflow_checks = "unobserved"
    /\ owner = "caller"
    /\ menu_idx = 0
    /\ callback = EmptyMap
    /\ queue = <<>>
    /\ window_tx = TRUE
    /\ caller_tx = FALSE
    /\ pc = "unspawned"
    /\ running = <<>>
    /\ window_calls = <<>>
    /\ last_call = NoCall
    /\ returned = <<>>
    /\ sent = <<>>
    /\ received = 0
    /\ invoked = <<>>
    /\ completed = 0
    /\ spawn_mark = 0
    /\ explicit = <<>>
    /\ quit_by = "nobody"

---------------------------------------------------------------------------
(* Calls made by the owner of the Application before dispatch *)

\* the value is gone: its receiver is dropped and with it what was queued
Destroyed ==
    /\ owner' = "none"
    /\ queue' = <<>>

\* `self.menu_idx += 1` after the entry was added; `ok` is the Ok(idx) record.
\* At u32::MAX the build decides: a panic (the caller's stack unwinds and
\* drops the Application) or a wrap to 0.
BumpIdx(ok, panicked) ==
    IF menu_idx < MaxIdx
    THEN /\ menu_idx' = menu_idx + 1
         /\ last_call' = ok
         /\ returned' = Append(returned, [op |-> ok.op, id |-> ok.idx, handler |-> ok.handler])
         /\ UNCHANGED <<overflow_checks, owner, queue, window_calls>>
    ELSE /\ overflow_checks' \in (IF overflow_checks = "unobserved" THEN {"panic", "wrap"}
                                ELSE {overflow_checks})
         /\ IF overflow_checks' = "panic"
            THEN /\ last_call' = panicked
                 /\ window_calls' = DropApplication(window_calls)
                 /\ Destroyed
                 /\ UNCHANGED <<menu_idx, returned>>
            ELSE /\ menu_idx' = WrappingInc(menu_idx)
                 /\ last_call' = ok
                 /\ returned' = Append(returned, [op |-> ok.op, id |-> ok.idx, handler |-> ok.handler])
                 /\ UNCHANGED <<owner, queue, window_calls>>

\* the id is taken before the window is asked, and stays taken
Rejected_BurnsId(call) ==
    /\ last_call' = [call EXCEPT !.handler = None] @@ [result |-> <<"Err", call.window>>]
    /\ menu_idx' = WrappingInc(menu_idx)
    /\ UNCHANGED <<overflow_checks, owner, callback, queue, window_calls, returned>>

\* `if let Err(e) = self.window.add_...(idx, ..) { return Err(e); }`
Rejected(call) ==
    /\ last_call' = [call EXCEPT !.handler = None] @@ [result |-> <<"Err", call.window>>]
    /\ UNCHANGED <<overflow_checks, owner, menu_idx, callback, queue, window_calls,
                   returned>>

add_menu_item(r) ==
    /\ owner = "caller"
    /\ Len(returned) < MaxAdds
    /\ LET idx == menu_idx
           f == make_callback(ItemCount(returned) + 1)
           call == [op |-> "add_menu_item", idx |-> idx, window |-> r, handler |-> f]
       IN IF r # "Ok"
          THEN Rejected(call)
          ELSE /\ callback' = Insert(callback, idx, f)
               /\ BumpIdx(call @@ [result |-> <<"Ok", idx>>],
                          call @@ [result |-> <<"Panic">>])
    /\ UNCHANGED <<window_tx, caller_tx, sent, explicit>>
    /\ UNCHANGED thread_vars
    /\ UNCHANGED quit_by

add_menu_separator(r) ==
    /\ owner = "caller"
    /\ Len(returned) < MaxAdds
    /\ LET idx == menu_idx
           call == [op |-> "add_menu_separator", idx |-> idx, window |-> r, handler |-> None]
       IN IF r # "Ok"
          THEN Rejected(call)
          ELSE /\ BumpIdx(call @@ [result |-> <<"Ok", idx>>],
                          call @@ [result |-> <<"Panic">>])
               /\ UNCHANGED callback
    /\ UNCHANGED <<window_tx, caller_tx, sent, explicit>>
    /\ UNCHANGED thread_vars
    /\ UNCHANGED quit_by

\* set_icon_from_file, set_icon_from_resource, set_icon_from_buffer and
\* set_tooltip: each hands its arguments to the window's method of the same
\* name and hands the window's result back
set_call(r) ==
    /\ owner = "caller"
    /\ last_call' = [op |-> "set", window |-> r,
                     result |-> IF r = "Ok" THEN <<"Ok">> ELSE <<"Err", r>>]
    /\ UNCHANGED <<overflow_checks, owner, queue, window_tx, caller_tx, window_calls,
                   returned, sent, explicit>>
    /\ UNCHANGED app_vars
    /\ UNCHANGED thread_vars
    /\ UNCHANGED quit_by

shutdown(r) ==
    /\ owner = "caller"
    /\ Len(explicit) < MaxExplicit
    /\ window_calls' = WindowShutdown(window_calls)
    /\ explicit' = Append(explicit, "shutdown")
    /\ last_call' = [op |-> "shutdown", window |-> r, result |-> IF r = "Ok" THEN <<"Ok">> ELSE <<"Err", r>>]
    /\ UNCHANGED <<overflow_checks, owner, queue, window_tx, caller_tx, returned, sent>>
    /\ UNCHANGED app_vars
    /\ UNCHANGED thread_vars
    /\ UNCHANGED quit_by

quit ==
    /\ owner = "caller"
    /\ Len(explicit) < MaxExplicit
    /\ window_calls' = WindowQuit(window_calls)
    /\ explicit' = Append(explicit, "quit")
    /\ last_call' = [op |-> "quit"]
    /\ UNCHANGED <<overflow_checks, owner, queue, window_tx, caller_tx, returned, sent>>
    /\ UNCHANGED app_vars
    /\ UNCHANGED thread_vars
    /\ UNCHANGED quit_by

\* the caller lets the Application go out of scope without wait_for_message
drop ==
    /\ owner = "caller"
    /\ window_calls' = DropApplication(window_calls)
    /\ Destroyed
    /\ last_call' = NoCall
    /\ UNCHANGED <<overflow_checks, window_tx, caller_tx, returned, sent, explicit>>
    /\ UNCHANGED app_vars
    /\ UNCHANGED thread_vars
    /\ UNCHANGED quit_by

\* wait_for_message(self): clone the sender for the caller, move the
\* Application into the spawned thread, which enters its loop
wait_for_message ==
    /\ owner = "caller"
    /\ caller_tx' = TRUE
    /\ owner' = "thread"
    /\ pc' = "recv"
    /\ spawn_mark' = Len(window_calls)
    /\ last_call' = NoCall
    /\ UNCHANGED <<overflow_checks, queue, window_tx, window_calls, returned, sent,
                   explicit, running, received, invoked, completed>>
    /\ UNCHANGED app_vars
    /\ UNCHANGED quit_by

---------------------------------------------------------------------------
(* The event channel *)

\* history: the producer of the first Quit
FirstQuitBy(who, e) == IF e = Quit /\ quit_by = "nobody" THEN who ELSE quit_by

\* the event jumps the queue
Send_Front(e) ==
    /\ owner # "none"
    /\ Len(sent) < MaxSends
    /\ queue' = <<e>> \o queue
    /\ sent' = Append(sent, e)

\* Sender::send: the event goes to the back of the queue
Send(e) ==
    /\ owner # "none"
    /\ Len(sent) < MaxSends
    /\ queue' = Append(queue, e)
    /\ sent' = Append(sent, e)

\* Receiver::recv on a channel holding `q` with `senders` live Sender clones
Recv(q, senders) ==
    IF q # <<>> THEN <<"Ok", Head(q)>>
    ELSE IF senders = 0 THEN <<"Err">>
    ELSE <<"Blocked">>

\* what recv leaves in the channel
AfterRecv(q) == IF q # <<>> THEN Tail(q) ELSE q

\* the events the platform window's thread may emit: clicks on the entries it
\* was given, and Quit
PlatformEvents == {MenuEvent(m) : m \in DOMAIN callback} \cup {Quit}

platform_send(e) ==
    /\ window_tx
    /\ Send(e)
    /\ UNCHANGED <<overflow_checks, owner, window_tx, caller_tx, window_calls,
                   last_call, returned, explicit>>
    /\ UNCHANGED app_vars
    /\ UNCHANGED thread_vars
    /\ quit_by' = FirstQuitBy("platform", e)

caller_send(e) ==
    /\ caller_tx
    /\ Send(e)
    /\ UNCHANGED <<overflow_checks, owner, window_tx, caller_tx, window_calls,
                   last_call, returned, explicit>>
    /\ UNCHANGED app_vars
    /\ UNCHANGED thread_vars
    /\ quit_by' = FirstQuitBy("caller", e)

\* the platform window's thread ends, or lets go of its sender, while the loop
\* is there to notice
drop_window_sender ==
    /\ owner = "thread"
    /\ window_tx
    /\ window_tx' = FALSE
    /\ UNCHANGED <<overflow_checks, owner, caller_tx, window_calls, last_call,
                   returned, explicit>>
    /\ UNCHANGED app_vars
    /\ UNCHANGED thread_vars
    /\ UNCHANGED chan_vars
    /\ UNCHANGED quit_by

\* the caller drops the sender wait_for_message returned, and every clone of it
drop_caller_sender ==
    /\ owner = "thread"
    /\ caller_tx
    /\ caller_tx' = FALSE
    /\ UNCHANGED <<overflow_checks, owner, window_tx, window_calls, last_call,
                   returned, explicit>>
    /\ UNCHANGED app_vars
    /\ UNCHANGED thread_vars
    /\ UNCHANGED chan_vars
    /\ UNCHANGED quit_by

---------------------------------------------------------------------------
(* The dispatch thread spawned by wait_for_message *)

\* self.callback.read().unwrap().contains_key(&m)
contains_key(map, m) == m \in DOMAIN map

\* cb_map.get(&m).unwrap()
get(map, m) == map[m]

\* the handler is started and the loop does not wait for it
Invoke_Detached(m) ==
    /\ pc' = "recv"
    /\ running' = <<m>>
    /\ invoked' = Append(invoked, [id |-> m, handler |-> get(callback, m)])

\* f(self.tx.clone()): the handler runs on the dispatch thread
Invoke(m) ==
    /\ pc' = "handler"
    /\ running' = <<m>>
    /\ invoked' = Append(invoked, [id |-> m, handler |-> get(callback, m)])

\* an unknown id ends the loop
NotFound_Breaks ==
    /\ pc' = "break"
    /\ UNCHANGED <<running, invoked>>

\* no handler under that id: nothing to do, next turn of the loop
NotFound == UNCHANGED <<pc, running, invoked>>

\* the loop goes on
Break_Continues == UNCHANGED <<pc, running, invoked>>

\* `_ => break` and `Err(_) => break`
Break ==
    /\ pc' = "break"
    /\ UNCHANGED <<running, invoked>>

\* one turn of the loop: recv, then the match on what it returned
dispatch ==
    /\ owner = "thread"
    /\ pc = "recv"
    /\ LET got == Recv(queue, LiveSenders)
       IN /\ got[1] # "Blocked"
          /\ queue' = AfterRecv(queue)
          /\ IF got[1] = "Err"
             THEN /\ Break
                  /\ UNCHANGED received
             ELSE /\ received' = received + 1
                  /\ IF got[2][1] = "MenuEvent"
                     THEN LET m == got[2][2]
                          IN IF contains_key(callback, m)
                             THEN Invoke(m)
                             ELSE NotFound
                     ELSE Break
    /\ UNCHANGED <<overflow_checks, owner, window_tx, caller_tx, window_calls,
                   last_call, returned, sent, completed, spawn_mark, explicit>>
    /\ UNCHANGED app_vars
    /\ UNCHANGED quit_by

\* the running handler sends on the clone of self.tx it was called with
handler_send(e) ==
    /\ pc = "handler"
    /\ Send(e)
    /\ UNCHANGED <<overflow_checks, owner, window_tx, caller_tx, window_calls,
                   last_call, returned, explicit>>
    /\ UNCHANGED app_vars
    /\ UNCHANGED thread_vars
    /\ quit_by' = FirstQuitBy("handler", e)

\* f(self.tx.clone()) returns: back to the top of the loop
handler_return ==
    /\ pc = "handler"
    /\ pc' = "recv"
    /\ running' = <<>>
    /\ completed' = completed + 1
    /\ UNCHANGED <<overflow_checks, owner, window_tx, caller_tx, window_calls,
                   last_call, returned, explicit, received, invoked, spawn_mark>>
    /\ UNCHANGED app_vars
    /\ UNCHANGED chan_vars
    /\ UNCHANGED quit_by

\* the thread ends without self.quit()
thread_quit_Skipped ==
    /\ pc = "break"
    /\ pc' = "exit"
    /\ UNCHANGED <<overflow_checks, owner, window_tx, caller_tx, last_call, returned,
                   explicit, running, received, invoked, completed, spawn_mark,
                   window_calls>>
    /\ UNCHANGED app_vars
    /\ UNCHANGED chan_vars
    /\ UNCHANGED quit_by

\* after the loop: self.quit()
thread_quit ==
    /\ pc = "break"
    /\ pc' = "exit"
    /\ window_calls' = WindowQuit(window_calls)
    /\ UNCHANGED <<overflow_checks, owner, window_tx, caller_tx, last_call, returned,
                   explicit, running, received, invoked, completed, spawn_mark>>
    /\ UNCHANGED app_vars
    /\ UNCHANGED chan_vars
    /\ UNCHANGED quit_by

\* the closure ends and the Application it owns is dropped
thread_exit ==
    /\ pc = "exit"
    /\ pc' = "done"
    /\ window_calls' = DropApplication(window_calls)
    /\ Destroyed
    /\ UNCHANGED <<overflow_checks, window_tx, caller_tx, last_call, returned, sent,
                   explicit, running, received, invoked, completed, spawn_mark>>
    /\ UNCHANGED app_vars
    /\ UNCHANGED quit_by

---------------------------------------------------------------------------
(* Specifications *)

Next ==
    \/ \E r \in WindowResult : add_menu_item(r)
    \/ \E r \in WindowResult : add_menu_separator(r)
    \/ \E r \in WindowResult : set_call(r)
    \/ \E r \in WindowResult : shutdown(r)
    \/ quit
    \/ drop
    \/ wait_for_message
    \/ \E e \in PlatformEvents : platform_send(e)
    \/ \E e \in SystrayEvent : caller_send(e)
    \/ drop_window_sender
    \/ drop_caller_sender
    \/ dispatch
    \/ \E e \in SystrayEvent : handler_send(e)
    \/ handler_return
    \/ thread_quit
    \/ thread_exit

Spec == Init /\ [][Next]_vars

\* the spawned thread is scheduled, and a handler that was invoked returns
ThreadStep == dispatch \/ handler_return \/ thread_quit \/ thread_exit

FairSpec == Spec /\ WF_vars(ThreadStep)

---------------------------------------------------------------------------
(* Vocabulary of the properties *)

Range(seq) == {seq[i] : i \in 1 .. Len(seq)}

\* the dispatch loop's states
Running == pc \in {"recv", "handler"}

Terminating == pc \in {"break", "exit"}

Stopped == pc = "done"

IsMenuEvent(e) == e[1] = "MenuEvent"

\* the event a receive in this state hands to the loop
NextEvent == Head(queue)

\* a step in which the loop receives an event
Receives == received' = received + 1

\* number of times `what` was asked of the platform window
Count(calls, what) == Cardinality({i \in 1 .. Len(calls) : calls[i] = what})

\* the window calls made since the dispatch thread was spawned
SinceSpawn == SubSeq(window_calls, spawn_mark + 1, Len(window_calls))

\* position of the first Quit in a sequence of events, 0 when there is none
FirstQuit(es) ==
    IF Quit \in Range(es) THEN CHOOSE i \in 1 .. Len(es) :
                                 es[i] = Quit /\ \A j \in 1 .. i - 1 : es[j] # Quit
    ELSE 0

\* the invocations a sequence of events asks for: one per MenuEvent whose id
\* has a handler, in order
RECURSIVE Invocations(_)
Invocations(es) ==
    IF es = <<>> THEN <<>>
    ELSE LET e == Head(es)
         IN (IF IsMenuEvent(e) /\ e[2] \in DOMAIN callback
             THEN <<[id |-> e[2], handler |-> callback[e[2]]]>>
             ELSE <<>>) \o Invocations(Tail(es))

---------------------------------------------------------------------------
(* C1: once dispatch has started, every MenuEvent(id) the loop receives     *)
(* for an id with a registered handler invokes that handler exactly once,   *)
(* no handler is invoked otherwise, and the loop receives an event only     *)
(* when every earlier invocation has returned.                              *)

C1_Step ==
    /\ Receives => completed = Len(invoked)
    /\ (Receives /\ IsMenuEvent(NextEvent) /\ NextEvent[2] \in DOMAIN callback)
           => invoked' = Append(invoked, [id |-> NextEvent[2],
                                          handler |-> callback[NextEvent[2]]])
    /\ invoked' # invoked
           => /\ Receives
              /\ IsMenuEvent(NextEvent)
              /\ Len(invoked') = Len(invoked) + 1
    /\ completed' # completed => (completed' = completed + 1 /\ completed' = Len(invoked))

C1_HandlerExactlyOnce == [][C1_Step]_vars

\* two handlers have run one after the other and both have returned
C1_Witness == Len(invoked) = 2 /\ completed = 2 /\ pc = "recv"

---------------------------------------------------------------------------
(* C2: a MenuEvent(id) received for an id that is no key of the callback    *)
(* registry invokes nothing and leaves the loop running; with a separator   *)
(* at id 0 and an item at id 1, MenuEvent(0), MenuEvent(1), Quit runs the   *)
(* handler of id 1 exactly once and nothing else.                           *)

C2_Step ==
    (Receives /\ IsMenuEvent(NextEvent) /\ NextEvent[2] \notin DOMAIN callback)
        => /\ invoked' = invoked
           /\ pc' = "recv"
           /\ completed' = completed

C2_Scenario ==
    /\ Len(returned) = 2
    /\ returned[1].op = "add_menu_separator" /\ returned[1].id = 0
    /\ returned[2].op = "add_menu_item" /\ returned[2].id = 1
    /\ sent = <<MenuEvent(0), MenuEvent(1), Quit>>
    /\ Stopped

C2_UnknownIdIgnored ==
    /\ [][C2_Step]_vars
    /\ [](C2_Scenario => /\ invoked = <<[id |-> 1, handler |-> returned[2].handler]>>
                         /\ completed = 1
                         /\ received = 3)

C2_Witness == C2_Scenario

---------------------------------------------------------------------------
(* C3: the loop leaves Running on the first Quit only after it has received *)
(* every event sent before that Quit and run their handlers to completion,  *)
(* and it never receives an event sent after that Quit.                     *)

C3_QuitAfterEarlierEvents ==
    LET q == FirstQuit(sent)
    IN /\ q # 0 => received <= q
       /\ (q # 0 /\ ~Running /\ pc # "unspawned")
             => /\ received = q
                /\ invoked = Invocations(SubSeq(sent, 1, q - 1))
                /\ completed = Len(invoked)

\* the loop has stopped on a Quit that had a handled event before it and an
\* event after it
C3_Witness ==
    /\ Stopped
    /\ Len(sent) = 3
    /\ sent[2] = Quit
    /\ Len(invoked) = 1

---------------------------------------------------------------------------
(* C4: once the caller and the platform window have dropped every clone of  *)
(* the sender they hold, and no Quit is posted, the dispatch loop           *)
(* eventually stops (with teardown done).                                   *)

C4_ClosedChannelTerminates ==
    (owner = "thread" /\ ~caller_tx /\ ~window_tx /\ Quit \notin Range(sent))
        ~> (Stopped \/ Quit \in Range(sent))

---------------------------------------------------------------------------
(* C5: while the loop is Running (and until it has broken out) the thread   *)
(* asks nothing of the window; once the loop has ended the window is asked  *)
(* to quit, once, and then to shut down, once, in that order.               *)

C5_QuitThenShutdown ==
    /\ pc \in {"recv", "handler", "break"} => SinceSpawn = <<>>
    /\ pc = "exit" => SinceSpawn = <<"quit">>
    /\ pc = "done" => SinceSpawn = <<"quit", "shutdown">>

\* the loop ran a handler, ended, and the thread has finished
C5_Witness == Stopped /\ Len(invoked) >= 1 /\ Len(window_calls) = spawn_mark + 2

---------------------------------------------------------------------------
(* C6: the k-th successful add_menu_item / add_menu_separator call,         *)
(* counting from 0, returns id k.                                           *)

C6_IdsCountFromZero == \A k \in 1 .. Len(returned) : returned[k].id = k - 1

---------------------------------------------------------------------------
(* C7: an add_menu_item / add_menu_separator call the window rejects        *)
(* returns the window's error and leaves menu_idx and the registry as they  *)
(* were, so that the next successful call returns the id the rejected call  *)
(* had tried.                                                               *)

IsAdd(c) == c.op \in {"add_menu_item", "add_menu_separator"}

IsRejectedAdd(c) == IsAdd(c) /\ c.window # "Ok"

IsOkAdd(c) == IsAdd(c) /\ c.result[1] = "Ok"

C7_Step ==
    /\ (last_call' # last_call /\ IsRejectedAdd(last_call'))
          => /\ last_call'.result = <<"Err", last_call'.window>>
             /\ last_call'.idx = menu_idx
             /\ menu_idx' = menu_idx
             /\ callback' = callback
             /\ returned' = returned
    /\ (last_call' # last_call /\ IsOkAdd(last_call'))
          => /\ last_call'.result = <<"Ok", menu_idx>>
             /\ IsRejectedAdd(last_call) => last_call'.result[2] = last_call.idx

C7_RejectedAddChangesNothing ==
    /\ [][C7_Step]_vars
    /\ []((IsRejectedAdd(last_call) /\ owner = "caller") => last_call.idx = menu_idx)

\* an item was registered at id 0, and then the window rejected a second one
C7_Witness ==
    /\ IsRejectedAdd(last_call)
    /\ last_call.op = "add_menu_item"
    /\ last_call.idx = 1
    /\ DOMAIN callback = {0}
    /\ menu_idx = 1

---------------------------------------------------------------------------
(* C8: over the lifetime of an Application the platform window is told to   *)
(* shut down exactly once: never twice, and once when the value is gone.    *)

C8_ShutdownExactlyOnce ==
    /\ Count(window_calls, "shutdown") <= 1
    /\ owner = "none" => Count(window_calls, "shutdown") = 1

---------------------------------------------------------------------------
(* C9: an Application that never reached wait_for_message and on which     *)
(* shutdown() was never called has asked the window to shut down once if it *)
(* has been dropped, and never if it has not.                               *)

C9_DropShutsDownOnce ==
    (pc = "unspawned" /\ "shutdown" \notin Range(explicit))
        => Count(window_calls, "shutdown") = (IF owner = "none" THEN 1 ELSE 0)

\* dropped after an item and a separator were added, without wait_for_message
C9_Witness ==
    /\ pc = "unspawned"
    /\ owner = "none"
    /\ "shutdown" \notin Range(explicit)
    /\ Len(returned) = 2
    /\ DOMAIN callback = {0}

---------------------------------------------------------------------------
(* C10: the loop receives the events in the order they were sent, whoever   *)
(* sent them: what is left in the channel is what was sent and not yet      *)
(* received, and the handler invocations are those of the events received,  *)
(* in sending order, none skipped, repeated or moved.                       *)

C10_FifoDispatch ==
    /\ received <= Len(sent)
    /\ owner # "none" => queue = SubSeq(sent, received + 1, Len(sent))
    /\ invoked = Invocations(SubSeq(sent, 1, received))

\* three events were sent and received, and two different handlers ran
C10_Witness ==
    /\ Len(sent) = 3
    /\ received = 3
    /\ Len(invoked) = 2
    /\ invoked[1].id # invoked[2].id

---------------------------------------------------------------------------
(* C11: a handler that sends Quit on the sender it was given is not cut     *)
(* short by it: when the thread is scheduled and handlers return, the loop  *)
(* stops on that Quit, having first received every event queued ahead of it *)
(* and run their handlers to the end, and the window is asked to quit and   *)
(* to shut down once each. With one item at id 0 whose handler sends Quit   *)
(* and a single MenuEvent(0), that handler runs exactly once.               *)

C11_Scenario ==
    /\ Len(returned) = 1
    /\ returned[1].op = "add_menu_item"
    /\ sent = <<MenuEvent(0), Quit>>
    /\ quit_by = "handler"
    /\ Stopped

\* the state the loop must end in when the first Quit came from a handler
C11_StoppedOnHandlerQuit ==
    /\ Stopped
    /\ received = FirstQuit(sent)
    /\ invoked = Invocations(SubSeq(sent, 1, received - 1))
    /\ completed = Len(invoked)
    /\ Len(invoked) >= 1
    /\ SinceSpawn = <<"quit", "shutdown">>
    /\ C11_Scenario => invoked = <<[id |-> 0, handler |-> returned[1].handler]>>

\* a handler's first Quit stays the first Quit, and sending leaves the
\* running handler running
C11_Step ==
    /\ quit_by = "handler" => quit_by' = "handler"
    /\ (pc = "handler" /\ sent' # sent) => (pc' = "handler" /\ invoked' = invoked)

C11_HandlerQuit ==
    /\ [][C11_Step]_vars
    /\ <>[](quit_by = "handler" => C11_StoppedOnHandlerQuit)

C11_Witness == C11_Scenario

---------------------------------------------------------------------------
(* C12: the loop only moves Running -> Terminating -> Stopped. It leaves    *)
(* Running only by receiving a Quit or by a receive error, never goes back  *)
(* to Running, and from then on receives nothing and invokes no handler,    *)
(* whatever is sent.                                                        *)

C12_Step ==
    /\ pc = "unspawned" => (pc' = "unspawned" \/ pc' = "recv")
    /\ (Running /\ ~Running')
          => /\ pc' = "break"
             /\ \/ Receives /\ NextEvent = Quit
                \/ queue = <<>> /\ LiveSenders = 0 /\ received' = received
    /\ Terminating => (Terminating' \/ Stopped')
    /\ Stopped => Stopped'
    /\ (Terminating \/ Stopped) => (invoked' = invoked /\ received' = received)

C12_NoWayBackToRunning == [][C12_Step]_vars

\* the loop stopped on a Quit while a click on a registered entry, sent
\* later, was never dispatched
C12_Witness ==
    /\ Stopped
    /\ Len(sent) = 3
    /\ sent[1] = Quit
    /\ received = 1
    /\ sent[3] = MenuEvent(0)
    /\ 0 \in DOMAIN callback
    /\ invoked = <<>>

---------------------------------------------------------------------------
(* C13: when the thread is scheduled and every handler it invokes returns,  *)
(* a Quit the caller posts through the sender wait_for_message returned     *)
(* brings the loop to Stopped, with quit and shutdown asked of the window:  *)
(* a first Quit of the caller's stays the first Quit, and from some point   *)
(* on it means that the loop has stopped and teardown is done.              *)

C13_CallerQuitStops ==
    /\ [][quit_by = "caller" => quit_by' = "caller"]_vars
    /\ <>[](quit_by = "caller" => (Stopped /\ SinceSpawn = <<"quit", "shutdown">>))

\* the caller's Quit was the first one, and the loop has stopped on it after
\* running a handler
C13_Witness == quit_by = "caller" /\ Stopped /\ Len(invoked) >= 1

---------------------------------------------------------------------------
(* C14: handlers run one at a time on the dispatch thread. At most one      *)
(* invocation has not returned, and until it returns the loop receives      *)
(* nothing, neither a MenuEvent nor a Quit, invokes nothing and does not    *)
(* leave Running: a handler that never returns holds everything up.         *)

C14_Step ==
    pc = "handler"
        => /\ received' = received
           /\ invoked' = invoked
           /\ window_calls' = window_calls
           /\ \/ pc' = "handler" /\ completed' = completed
              \/ pc' = "recv" /\ completed' = completed + 1

C14_OneAtATime ==
    /\ Len(invoked) - completed \in {0, 1}
    /\ pc = "handler" <=> Len(invoked) = completed + 1
    /\ pc = "handler" <=> running # <<>>
    /\ running # <<>> => running = <<invoked[Len(invoked)].id>>

C14_HandlersSerialized ==
    /\ [][C14_Step]_vars
    /\ []C14_OneAtATime

\* a handler is running while a MenuEvent and a Quit wait in the channel
C14_Witness ==
    /\ pc = "handler"
    /\ Len(queue) = 2
    /\ IsMenuEvent(queue[1])
    /\ queue[2] = Quit

---------------------------------------------------------------------------
(* C15: a successful add_menu_separator takes an id and stores nothing in   *)
(* the callback registry: in every reachable state no id that               *)
(* add_menu_separator returned is a key of the registry.                    *)

C15_SeparatorNeverRegistered ==
    \A k \in 1 .. Len(returned) :
        returned[k].op = "add_menu_separator" => returned[k].id \notin DOMAIN callback

---------------------------------------------------------------------------
(* C16: no two successful add_menu_item / add_menu_separator calls on one   *)
(* Application return the same id, however many calls there are, the call   *)
(* that increments menu_idx at its maximum included.                        *)

C16_IdsNeverReused ==
    \A i, j \in 1 .. Len(returned) : i # j => returned[i].id # returned[j].id

---------------------------------------------------------------------------
(* C17: the registry only grows, and is frozen once dispatch has started.   *)
(* Its keys are exactly the ids the successful add_menu_item calls          *)
(* returned, all below menu_idx; no entry is removed or replaced; after     *)
(* wait_for_message nothing changes the registry or menu_idx.               *)

\* the ids the successful add_menu_item calls returned
ItemIds == {returned[k].id : k \in {i \in 1 .. Len(returned) : returned[i].op = "add_menu_item"}}

C17_Keys ==
    owner # "none" => /\ DOMAIN callback = ItemIds
                      /\ \A id \in DOMAIN callback : id < menu_idx

C17_Step ==
    /\ \A id \in DOMAIN callback : id \in DOMAIN callback' /\ callback'[id] = callback[id]
    /\ pc # "unspawned" => (callback' = callback /\ menu_idx' = menu_idx)

C17_RegistryGrowsThenFrozen ==
    /\ []C17_Keys
    /\ [][C17_Step]_vars

---------------------------------------------------------------------------
(* C18: the handler invoked for a received MenuEvent(id) is the handler     *)
(* that was passed to the add_menu_item call that returned id, for every    *)
(* such call, and never a handler registered under another id.              *)

C18_RightHandler ==
    \A i \in 1 .. Len(invoked) :
        /\ invoked[i].id \in ItemIds
        /\ \A k \in 1 .. Len(returned) :
              returned[k].op = "add_menu_item"
                 => (returned[k].id = invoked[i].id <=> returned[k].handler = invoked[i].handler)

====
